---- MODULE Spec2Model ----
(***************************************************************************)
(* Model of azure_metrics_exporter: the token lifecycle, API-version       *)
(* selection, resource resolution, batched metric queries and metric       *)
(* translation of one collection cycle (main.go, azure.go).                *)
(*                                                                         *)
(* Strings the code slices or joins are sequences of pieces; strings the   *)
(* code only compares are TLA+ strings.  Time is counted in minutes.       *)
(***************************************************************************)
EXTENDS Integers, Sequences, FiniteSets, TLC

VARIABLES
    proc,                  \* the process: "init", "serving", "exited", "crashed"
    now,                   \* time.Now(), in minutes
    accessToken,           \* ac.accessToken
    accessTokenExpiresOn,  \* ac.accessTokenExpiresOn
    APIVersions,           \* ac.APIVersions
    versionResponse,       \* the decoded body of the last provider listing
    sc,                    \* sc.C: Targets, ResourceGroups, ResourceTags
    pc,                    \* position of Collect
    idx,                   \* index of the target / group / tag being expanded
    pending,               \* filteredResources of the tag being expanded
    resources,             \* Collect's resources []resourceMeta
    offset,                \* batchCollectResources' i
    ch,                    \* what the cycle has sent on ch, counted by kind
    reqs,                  \* the HTTP requests of the cycle, in order
    batchCalls,            \* every batch call of the cycle: its slice [i, j) of
                           \* resources and the number of sub-responses decoded
    handed,                \* the extractMetrics calls of the cycle: the query
                           \* passed (q, its place in resources), the batch and
                           \* the position of the sub-response, its status, the
                           \* number of metrics in its payload, and the number
                           \* of samples sent (n)
    result,                \* how the cycle ended
    input,                 \* the arguments of a function applied on its own
    output,                \* what that function returned or sent
    cyc                    \* overlapping scrapes: the position and the locals
                           \* of each handler goroutine

vars == <<proc, now, accessToken, accessTokenExpiresOn, APIVersions,
          versionResponse, sc, pc, idx, pending, resources, offset, ch, reqs,
          batchCalls, handed, result, input, output, cyc>>

(***************************************************************************)
(* Bounds of the model.                                                    *)
(***************************************************************************)
MaxTime == 13          \* the clock stops here
TokenLifetime == 11    \* minutes a token of the identity endpoint lives
MaxVersions == 3       \* longest apiVersions list of a resource type
MaxResources == 41     \* longest resolved-query list handed to the batcher

Min(a, b) == IF a < b THEN a ELSE b

(***************************************************************************)
(* API versions (azure.go:116-159).                                        *)
(* A version string is its leading token and the rest.  lead = "date"      *)
(* when the string starts with dddd-dd-dd, the digits being y, m, d.       *)
(***************************************************************************)
VersionStr(lead, y, m, d, rest) ==
    [lead |-> lead, y |-> y, m |-> m, d |-> d, rest |-> rest]

EmptyVersion == VersionStr("none", 0, 0, 0, "")

\* time.Time{}: January 1, year 1.
zeroTime == <<1, 1, 1>>

\* apiVersionDate.FindString: the leading dddd-dd-dd, or "".
apiVersionDateFindString(api) ==
    IF api.lead = "date" THEN VersionStr("date", api.y, api.m, api.d, "")
    ELSE EmptyVersion

DaysIn(y, m) ==
    IF m = 2 THEN (IF y % 4 = 0 /\ (y % 100 # 0 \/ y % 400 = 0) THEN 29 ELSE 28)
    ELSE IF m \in {4, 6, 9, 11} THEN 30 ELSE 31

\* time.Parse("2006-01-02", s): an error unless s is a calendar date.
timeParse(s) ==
    IF s.lead = "date" /\ s.m \in 1..12 /\ s.d \in 1..DaysIn(s.y, s.m)
    THEN [err |-> FALSE, date |-> <<s.y, s.m, s.d>>]
    ELSE [err |-> TRUE, date |-> zeroTime]

\* Time.Before
Before(t, u) ==
    \/ t[1] < u[1]
    \/ t[1] = u[1] /\ t[2] < u[2]
    \/ t[1] = u[1] /\ t[2] = u[2] /\ t[3] < u[3]

\* The comparison of latestVersionFrom with a candidate of an equal date
\* replacing the one held.
latestStep_lastWins(latest, api) ==
    LET p == timeParse(apiVersionDateFindString(api))
    IN  IF p.err THEN latest
        ELSE IF ~Before(p.date, latest.Date)
             THEN [Endpoint |-> api, Date |-> p.date]
             ELSE latest

\* One iteration of the loop of latestVersionFrom.
latestStep(latest, api) ==
    LET p == timeParse(apiVersionDateFindString(api))
    IN  IF p.err THEN latest
        ELSE IF Before(latest.Date, p.date)
             THEN [Endpoint |-> api, Date |-> p.date]
             ELSE latest

RECURSIVE latestLoop(_, _)
latestLoop(latest, apiList) ==
    IF apiList = <<>> THEN latest
    ELSE latestLoop(latestStep(latest, Head(apiList)), Tail(apiList))

latestVersionFrom(apiList) ==
    latestLoop([Endpoint |-> EmptyVersion, Date |-> zeroTime], apiList).Endpoint

\* strings.Join of two pieces.
Join2(a, b, sep) == <<a, sep, b>>

RECURSIVE typesLoop(_, _, _)
typesLoop(apiVersions, namespace, types) ==
    IF types = <<>> THEN apiVersions
    ELSE LET t == Head(types)
             resourceType == Join2(namespace, t.ResourceType, "/")
             next == IF Len(t.APIVersions) = 0 THEN apiVersions
                     ELSE [k \in DOMAIN apiVersions \cup {resourceType} |->
                             IF k = resourceType
                             THEN latestVersionFrom(t.APIVersions)
                             ELSE apiVersions[k]]
         IN  typesLoop(next, namespace, Tail(types))

RECURSIVE valuesLoop(_, _)
valuesLoop(apiVersions, values) ==
    IF values = <<>> THEN apiVersions
    ELSE valuesLoop(typesLoop(apiVersions, Head(values).Namespace,
                              Head(values).ResourceTypes),
                    Tail(values))

EmptyMap == [k \in {} |-> EmptyVersion]

extractAPIVersions(r) == valuesLoop(EmptyMap, r.Value)

findBy(m, resourceType) ==
    IF resourceType \in DOMAIN m THEN m[resourceType] ELSE EmptyVersion


(***************************************************************************)
(* The access token (azure.go:178-212, 483-494).                           *)
(* A token is the pair the identity endpoint knows it by: when it was      *)
(* issued and when it expires.  A JSON value is [t, v]: t is "absent",     *)
(* "string" or "number"; a string holds a token, or digits n, or neither. *)
(***************************************************************************)
Token(iss, exp) == [iss |-> iss, exp |-> exp]

\* accessToken: "" and accessTokenExpiresOn: time.Time{} of NewAzureClient.
NoToken == Token(0, 0)

ZeroExpiry == 0

\* refreshAccessToken's margin: -10 * time.Minute.
refreshSkew == 10

JValue(t, tok, digits, n) == [t |-> t, tok |-> tok, digits |-> digits, n |-> n]

JAbsent == JValue("absent", NoToken, FALSE, 0)

\* strconv.ParseInt(s, 10, 64)
ParseInt(s) == IF s.digits THEN [err |-> FALSE, n |-> s.n] ELSE [err |-> TRUE, n |-> 0]

\* What the identity endpoint may answer at time t.
IdentityResponses(t) ==
    LET tok == JValue("string", Token(t, t + TokenLifetime), FALSE, 0)
        exp == JValue("string", NoToken, TRUE, t + TokenLifetime)
        obj(a, e) == [err |-> FALSE, status |-> 200, readErr |-> FALSE, json |-> TRUE,
                      data |-> [access_token |-> a, expires_on |-> e]]
    IN  { [err |-> TRUE, status |-> 0, readErr |-> FALSE, json |-> FALSE,
           data |-> [access_token |-> JAbsent, expires_on |-> JAbsent]],
          [err |-> FALSE, status |-> 401, readErr |-> FALSE, json |-> TRUE,
           data |-> [access_token |-> JAbsent, expires_on |-> JAbsent]],
          [err |-> FALSE, status |-> 200, readErr |-> TRUE, json |-> FALSE,
           data |-> [access_token |-> JAbsent, expires_on |-> JAbsent]],
          [err |-> FALSE, status |-> 200, readErr |-> FALSE, json |-> FALSE,
           data |-> [access_token |-> JAbsent, expires_on |-> JAbsent]],
          obj(tok, exp),
          obj(JAbsent, exp),
          obj(JValue("number", NoToken, TRUE, 7), exp),
          obj(tok, JAbsent),
          obj(tok, JValue("number", NoToken, TRUE, t + TokenLifetime)),
          obj(tok, JValue("string", NoToken, FALSE, 0)) }

\* getAccessToken: the outcome and the two fields of ac afterwards.
getAccessToken(tok, expiresOn, resp) ==
    LET keep(o) == [outcome |-> o, accessToken |-> tok, accessTokenExpiresOn |-> expiresOn]
    IN  IF resp.err THEN keep("error")
        ELSE IF resp.status # 200 THEN keep("error")
        ELSE IF resp.readErr THEN keep("error")
        ELSE IF ~resp.json THEN keep("error")
        ELSE IF resp.data.access_token.t # "string" THEN keep("panic")
        ELSE LET newTok == resp.data.access_token.tok
             IN  IF resp.data.expires_on.t # "string"
                 THEN [outcome |-> "panic", accessToken |-> newTok,
                       accessTokenExpiresOn |-> expiresOn]
                 ELSE LET p == ParseInt(resp.data.expires_on)
                      IN  IF p.err
                          THEN [outcome |-> "error", accessToken |-> newTok,
                                accessTokenExpiresOn |-> expiresOn]
                          ELSE [outcome |-> "ok", accessToken |-> newTok,
                                accessTokenExpiresOn |-> p.n]

\* The test of refreshAccessToken with the margin left out.
refreshNeeded_noSkew(t, expiresOn) == t > expiresOn

\* now.After(ac.accessTokenExpiresOn.Add(-10 * time.Minute))
refreshNeeded(t, expiresOn) ==
    LET refreshAt == expiresOn + (0 - refreshSkew)
    IN  t > refreshAt

(***************************************************************************)
(* Resource identifiers and descriptors (azure.go:82-94, 366-447).         *)
(* An identifier is a sequence of characters.                              *)
(***************************************************************************)
SubscriptionID == <<"s">>

\* fmt.Sprintf("subscriptions/%s", sc.C.Credentials.SubscriptionID)
subscription ==
    <<"s", "u", "b", "s", "c", "r", "i", "p", "t", "i", "o", "n", "s", "/">>
        \o SubscriptionID

\* The identifier Azure gives the resource at a subscription-relative path.
FullID(path) == <<"/">> \o subscription \o path

HasSubscriptionPrefix(id) ==
    /\ Len(id) >= Len(subscription) + 1
    /\ SubSeq(id, 1, Len(subscription) + 1) = <<"/">> \o subscription

PathA == <<"/", "a">>
PathB == <<"/", "b">>
PathX == <<"/", "x">>

TypeVM == Join2("Microsoft.Compute", "virtualMachines", "/")
TypeSQL == Join2("Microsoft.Sql", "servers", "/")
NoType == <<>>

\* targetResourceType.FindString on the identifiers of the model.
targetResourceTypeFindString(resourceID) ==
    IF resourceID \in {PathA, FullID(PathA)} THEN TypeVM
    ELSE IF resourceID \in {PathB, FullID(PathB)} THEN TypeSQL
    ELSE NoType

AzureResource(id, name, type, sub) ==
    [ID |-> id, Name |-> name, Type |-> type, Subscription |-> sub]

NoResource == AzureResource(<<>>, "", NoType, <<>>)

\* The resource Azure holds at a path, as its JSON decodes.
ResourceAt(path) ==
    IF path = PathA THEN AzureResource(FullID(PathA), "web-1", TypeVM, <<>>)
    ELSE IF path = PathB THEN AzureResource(FullID(PathB), "web-test", TypeSQL, <<>>)
    ELSE AzureResource(FullID(path), "db-1", NoType, <<>>)

\* An HTTP answer to a GET: transport error, status, body-read error, and the
\* body (json says whether it decodes into the type asked for).
HttpResponse(err, status, readErr, json, val) ==
    [err |-> err, status |-> status, readErr |-> readErr, json |-> json, val |-> val]

\* The answers that carry nothing, for a body of type `none`.
FailedResponses(none) ==
    { HttpResponse(TRUE, 0, FALSE, FALSE, none),
      HttpResponse(FALSE, 500, FALSE, TRUE, none),
      HttpResponse(FALSE, 200, TRUE, FALSE, none),
      HttpResponse(FALSE, 200, FALSE, FALSE, none) }

\* getAzureMonitorResponse followed by json.Unmarshal of the body.
getAzureMonitorResponse(resp) ==
    IF resp.err THEN [err |-> TRUE]
    ELSE IF resp.status # 200 THEN [err |-> TRUE]
    ELSE IF resp.readErr THEN [err |-> TRUE]
    ELSE [err |-> ~resp.json]

\* lookupResourceByID: sent says whether the GET was made.
lookupResourceByID(apiVersions, resourceID, resp) ==
    LET resourceType == targetResourceTypeFindString(resourceID)
        apiVersion == findBy(apiVersions, resourceType)
        fail(sent) == [err |-> TRUE, sent |-> sent, resource |-> NoResource]
    IN  IF resourceType = NoType THEN fail(FALSE)
        ELSE IF apiVersion = EmptyVersion THEN fail(FALSE)
        ELSE IF getAzureMonitorResponse(resp).err THEN fail(TRUE)
        ELSE [err |-> FALSE, sent |-> TRUE,
              resource |-> [resp.val EXCEPT !.Subscription = SubscriptionID]]

\* The answers to the GET of lookupResourceByID. The identifier asked for is
\* subscription-relative, or already stripped of its prefix.
LookupResponses(resourceID) ==
    FailedResponses(NoResource)
        \cup { HttpResponse(FALSE, 200, FALSE, TRUE, ResourceAt(resourceID)) }

\* One iteration of extendResources: val.ID[subscriptionPrefixLen:].
extendOne(val) ==
    LET subscriptionPrefixLen == Len(subscription) + 1
    IN  IF Len(val.ID) < subscriptionPrefixLen
        THEN [panic |-> TRUE, val |-> val]
        ELSE [panic |-> FALSE,
              val |-> [val EXCEPT !.ID = SubSeq(val.ID, subscriptionPrefixLen + 1,
                                                Len(val.ID)),
                                  !.Subscription = SubscriptionID]]

extendResources(values) ==
    [panic |-> \E n \in 1..Len(values) : extendOne(values[n]).panic,
     Value |-> [n \in 1..Len(values) |-> extendOne(values[n]).val]]

Range(s) == {s[n] : n \in 1..Len(s)}

\* filterTypesInResourceList
filterTypesInResourceList(values, types) ==
    LET typeExist(resource) == resource.Type \in Range(types)
    IN  SelectSeq(values, typeExist)

\* rx.MatchString: a compiled pattern is the set of names it matches.
MatchString(rx, name) == name \in rx

\* The loops of filterResources over a pattern list: whether some pattern
\* matches the name (break at the first that does).
RECURSIVE matchLoop(_, _)
matchLoop(res, name) ==
    IF res = <<>> THEN FALSE
    ELSE IF MatchString(Head(res), name) THEN TRUE
    ELSE matchLoop(Tail(res), name)

\* The loop of filterResources over the resources.
RECURSIVE filterLoop(_, _, _)
filterLoop(rs, resourceGroup, filteredResources) ==
    IF rs = <<>> THEN filteredResources
    ELSE LET resource == Head(rs)
             include == matchLoop(resourceGroup.ResourceNameIncludeRe, resource.Name)
             exclude == matchLoop(resourceGroup.ResourceNameExcludeRe, resource.Name)
         IN  IF Len(resourceGroup.ResourceNameIncludeRe) # 0 /\ ~include
             THEN filterLoop(Tail(rs), resourceGroup, filteredResources)
             ELSE IF exclude
             THEN filterLoop(Tail(rs), resourceGroup, filteredResources)
             ELSE filterLoop(Tail(rs), resourceGroup,
                             Append(filteredResources, resource))

\* filterResources with the exclude patterns ignored.
filterResources_includeOnly(rs, resourceGroup) ==
    filterLoop(rs, [resourceGroup EXCEPT !.ResourceNameExcludeRe = <<>>], <<>>)

\* filterResources
filterResources(rs, resourceGroup) == filterLoop(rs, resourceGroup, <<>>)

(***************************************************************************)
(* Resolved queries and metric translation (main.go:45-115,                *)
(* azure.go:49-80, 505-573).                                               *)
(***************************************************************************)
batchSize == 20

SupportedAggregations == {"Total", "Average", "Minimum", "Maximum"}

\* filterAggregations: the requested kinds among the four supported.
filterAggregations(aggregations) ==
    LET supported(a) == a \in SupportedAggregations
    IN  SelectSeq(aggregations, supported)

hasAggregation(aggregations, a) == a \in Range(aggregations)

\* resourceURLFrom: the path and the query of the relative URL (the time span
\* of the query is left out).
resourceURLFrom(resource, metricNames, aggregations) ==
    [path |-> <<"/">> \o subscription \o resource
                \o <<"/providers/microsoft.insights/metrics">>,
     metricnames |-> metricNames,
     aggregation |-> filterAggregations(aggregations)]

RECURSIVE metricNamesOf(_)
metricNamesOf(metrics) ==
    IF metrics = <<>> THEN <<>>
    ELSE <<Head(metrics).Name>> \o metricNamesOf(Tail(metrics))

\* The resourceMeta Collect builds for identifier id under a target,
\* resource-group or resource-tag entry of the configuration.
resourceMetaOf(id, entry, resource) ==
    [ResourceURL |-> resourceURLFrom(id, metricNamesOf(entry.Metrics),
                                     filterAggregations(entry.Aggregations)),
     Metrics |-> metricNamesOf(entry.Metrics),
     Aggregations |-> filterAggregations(entry.Aggregations),
     Resource |-> resource]

Point(total, average, minimum, maximum) ==
    [Total |-> total, Average |-> average, Minimum |-> minimum, Maximum |-> maximum]

MetricValue(name, unit, timeseries) ==
    [Name |-> name, Unit |-> unit, Timeseries |-> timeseries]

Sample(kind, name, suffix, value, url) ==
    [kind |-> kind, name |-> name, suffix |-> suffix, value |-> value, url |-> url]

\* samplesOf reading the first data point of the series.
samplesOf_firstPoint(rm, value) ==
    LET metricName == <<value.Name, value.Unit>>
        metricValue == value.Timeseries[1].Data[1]
        one(a, suffix, v) ==
            IF hasAggregation(rm.Aggregations, a)
            THEN <<Sample("metric", metricName, suffix, v, rm.ResourceURL)>>
            ELSE <<>>
    IN  one("Total", "_total", metricValue.Total)
        \o one("Average", "_average", metricValue.Average)
        \o one("Minimum", "_min", metricValue.Minimum)
        \o one("Maximum", "_max", metricValue.Maximum)

\* The samples of one metric of the loop of extractMetrics, for the last data
\* point of its first series.
samplesOf(rm, value) ==
    LET metricName == <<value.Name, value.Unit>>
        data == value.Timeseries[1].Data
        metricValue == data[Len(data)]
        one(a, suffix, v) ==
            IF hasAggregation(rm.Aggregations, a)
            THEN <<Sample("metric", metricName, suffix, v, rm.ResourceURL)>>
            ELSE <<>>
    IN  one("Total", "_total", metricValue.Total)
        \o one("Average", "_average", metricValue.Average)
        \o one("Minimum", "_min", metricValue.Minimum)
        \o one("Maximum", "_max", metricValue.Maximum)

RECURSIVE valueLoop(_, _, _)
valueLoop(rm, values, out) ==
    IF values = <<>> THEN [panic |-> FALSE, out |-> out]
    ELSE LET value == Head(values)
         IN  IF Len(value.Timeseries) = 0 \/ Len(value.Timeseries[1].Data) = 0
             THEN [panic |-> TRUE, out |-> out]
             ELSE valueLoop(rm, Tail(values), out \o samplesOf(rm, value))

\* extractMetrics without the test of the sub-response's status.
extractMetrics_anyStatus(rm, httpStatusCode, metricValueData) ==
    IF \/ Len(metricValueData.Value) = 0
       \/ Len(metricValueData.Value[1].Timeseries) = 0
    THEN [panic |-> FALSE, out |-> <<>>]
    ELSE IF Len(metricValueData.Value[1].Timeseries[1].Data) = 0
    THEN [panic |-> FALSE, out |-> <<>>]
    ELSE LET r == valueLoop(rm, metricValueData.Value, <<>>)
         IN  IF r.panic THEN r
             ELSE [panic |-> FALSE,
                   out |-> r.out \o <<Sample("info", <<"azure_resource_info", "">>, "",
                                             0, rm.ResourceURL)>>]

\* extractMetrics: what it sends on ch, and whether it indexes an empty list.
extractMetrics(rm, httpStatusCode, metricValueData) ==
    IF httpStatusCode # 200 THEN [panic |-> FALSE, out |-> <<>>]
    ELSE IF \/ Len(metricValueData.Value) = 0
            \/ Len(metricValueData.Value[1].Timeseries) = 0
    THEN [panic |-> FALSE, out |-> <<>>]
    ELSE IF Len(metricValueData.Value[1].Timeseries[1].Data) = 0
    THEN [panic |-> FALSE, out |-> <<>>]
    ELSE LET r == valueLoop(rm, metricValueData.Value, <<>>)
         IN  IF r.panic THEN r
             ELSE [panic |-> FALSE,
                   out |-> r.out \o <<Sample("info", <<"azure_resource_info", "">>, "",
                                             0, rm.ResourceURL)>>]

\* ch, counted by kind of what was sent.
NoneSent == [invalid |-> 0, metric |-> 0, info |-> 0]

CountKind(out, kind) == Cardinality({n \in 1..Len(out) : out[n].kind = kind})

Sent(c, out) ==
    [invalid |-> c.invalid,
     metric |-> c.metric + CountKind(out, "metric"),
     info |-> c.info + CountKind(out, "info")]

SentInvalid(c) == [c EXCEPT !.invalid = c.invalid + 1]

\* getBatchMetricValues: the decoded answer, or an error.
getBatchMetricValues(urls, resp) ==
    IF resp.err THEN [err |-> TRUE, Responses |-> <<>>]
    ELSE IF resp.readErr THEN [err |-> TRUE, Responses |-> <<>>]
    ELSE IF ~resp.json THEN [err |-> TRUE, Responses |-> <<>>]
    ELSE [err |-> FALSE, Responses |-> resp.val.Responses]

\* The loop over batchData.Responses of batchCollectResources, from the k-th
\* response (k counts from 1; i is the 0-based start of the batch).
RECURSIVE extractLoop(_, _, _, _, _, _)
extractLoop(rs, i, batch, responses, k, acc) ==
    IF k > Len(responses) THEN acc
    ELSE IF i + k > Len(rs) THEN [acc EXCEPT !.panic = TRUE]
    ELSE LET resp == responses[k]
             r == extractMetrics(rs[i + k], resp.HttpStatusCode, resp.Content)
             next == [panic |-> r.panic,
                      ch |-> Sent(acc.ch, r.out),
                      handed |-> Append(acc.handed,
                                        [q |-> i + k, batch |-> batch, pos |-> k,
                                         status |-> resp.HttpStatusCode,
                                         values |-> Len(resp.Content.Value),
                                         n |-> Len(r.out)])]
         IN  IF r.panic THEN next
             ELSE extractLoop(rs, i, batch, responses, k + 1, next)

(***************************************************************************)
(* The configuration and what Azure may answer.                            *)
(***************************************************************************)
Metrics1 == <<[Name |-> "cpu"]>>
Aggregations1 == <<"Total", "Count">>

Target(resource) ==
    [Resource |-> resource, Metrics |-> Metrics1, Aggregations |-> Aggregations1]

ResourceGroup(name, include, exclude) ==
    [ResourceGroup |-> name, ResourceTypes |-> <<TypeVM, TypeSQL>>,
     ResourceNameIncludeRe |-> include, ResourceNameExcludeRe |-> exclude,
     Metrics |-> Metrics1, Aggregations |-> Aggregations1]

ResourceTag(name, value, types) ==
    [ResourceTagName |-> name, ResourceTagValue |-> value, ResourceTypes |-> types,
     Metrics |-> Metrics1, Aggregations |-> Aggregations1]

\* The names the patterns "^web" and "-test$" match.
ReWeb == {"web-1", "web-test"}
ReTest == {"web-test"}

Group1 == ResourceGroup("rg1", <<>>, <<ReTest>>)
Group2 == ResourceGroup("rg2", <<ReWeb>>, <<>>)
Tag1 == ResourceTag("env", "prod", <<>>)
Tag2 == ResourceTag("env", "prod", <<TypeVM>>)

Configs ==
    { [Targets |-> <<Target(PathA)>>, ResourceGroups |-> <<Group2, Group1>>,
       ResourceTags |-> <<Tag1>>],
      [Targets |-> <<Target(PathX), Target(PathB)>>, ResourceGroups |-> <<>>,
       ResourceTags |-> <<Tag2>>],
      [Targets |-> <<>>, ResourceGroups |-> <<>>, ResourceTags |-> <<>>] }

NoConfig == [Targets |-> <<>>, ResourceGroups |-> <<>>, ResourceTags |-> <<>>]

V2019 == VersionStr("date", 2019, 5, 10, "")
V2019p == VersionStr("date", 2019, 5, 10, "-preview")
V2018 == VersionStr("date", 2018, 2, 1, "")
V2018p == VersionStr("date", 2018, 2, 1, "-preview")
VBadMonth == VersionStr("date", 2019, 13, 1, "")
VBadDay == VersionStr("date", 2019, 2, 31, "")
VNoDate == VersionStr("none", 0, 0, 0, "preview")
VYear1 == VersionStr("date", 1, 1, 1, "")

VersionUniverse ==
    {V2019, V2019p, V2018, V2018p, VBadMonth, VBadDay, VNoDate, VYear1}

Provider(namespace, types) == [Namespace |-> namespace, ResourceTypes |-> types]

ProviderType(resourceType, apiVersions) ==
    [ResourceType |-> resourceType, APIVersions |-> apiVersions]

NoVersionResponse == [Value |-> <<>>]

\* Provider listings of the subscription: both resource types registered, or
\* only the first.
VersionBodies ==
    { [Value |-> <<Provider("Microsoft.Compute",
                            <<ProviderType("virtualMachines", <<V2018, V2019>>)>>),
                   Provider("Microsoft.Sql",
                            <<ProviderType("servers", <<V2019p, V2018>>)>>)>>],
      [Value |-> <<Provider("Microsoft.Compute",
                            <<ProviderType("virtualMachines", <<V2019>>),
                              ProviderType("disks", <<>>)>>)>>] }

VersionResponses ==
    FailedResponses(NoVersionResponse)
        \cup { HttpResponse(FALSE, 200, FALSE, TRUE, b) : b \in VersionBodies }

\* Resource listings of a group or of a tag.
ListResponses ==
    FailedResponses(<<>>)
        \cup { HttpResponse(FALSE, 200, FALSE, TRUE, l) :
                 l \in { <<>>, <<ResourceAt(PathA)>>,
                         <<ResourceAt(PathB), ResourceAt(PathA)>> } }

PayloadData ==
    [Value |-> <<MetricValue("cpu", "Percent",
                             <<[Data |-> <<Point(1, 1, 1, 1), Point(3, 2, 1, 4)>>]>>)>>]

PayloadEmpty == [Value |-> <<>>]

SubResponse(status, content) == [HttpStatusCode |-> status, Content |-> content]

\* The sub-responses of a batch answer, by position.
SubResponseAt(pattern, n) ==
    IF pattern = "ok" THEN SubResponse(200, PayloadData)
    ELSE IF pattern = "failed" THEN SubResponse(500, PayloadEmpty)
    ELSE IF n % 4 = 1 THEN SubResponse(200, PayloadData)
    ELSE IF n % 4 = 2 THEN SubResponse(500, PayloadEmpty)
    ELSE IF n % 4 = 3 THEN SubResponse(404, PayloadData)
    ELSE SubResponse(200, PayloadEmpty)

\* The answers of the batch endpoint to a batch of len requests: failures of
\* the call, an error status with a JSON body that has no responses, and
\* decodable answers of len - 1, len and len + 1 sub-responses.
BatchResponses(len) ==
    { HttpResponse(TRUE, 0, FALSE, FALSE, [Responses |-> <<>>]),
      HttpResponse(FALSE, 200, TRUE, FALSE, [Responses |-> <<>>]),
      HttpResponse(FALSE, 502, FALSE, FALSE, [Responses |-> <<>>]),
      HttpResponse(FALSE, 401, FALSE, TRUE, [Responses |-> <<>>]) }
    \cup { HttpResponse(FALSE, 200, FALSE, TRUE,
                        [Responses |-> [n \in 1..m |-> SubResponseAt(pattern, n)]]) :
             m \in {len - 1, len, len + 1}, pattern \in {"ok", "failed", "mixed"} }

\* An entry of reqs: the kind of the request, and whether its answer came with
\* status 200 and a body that decodes.
ResponseOK(resp) == ~resp.err /\ resp.status = 200 /\ ~resp.readErr /\ resp.json

Req(kind, resp) == [kind |-> kind, ok |-> ResponseOK(resp)]

(***************************************************************************)
(* The process: main, and one collection cycle per scrape (main.go:117-297). *)
(* A step of the cycle is one blocking HTTP call and the code that follows *)
(* it up to the next call.                                                 *)
(***************************************************************************)
tokenVars == <<accessToken, accessTokenExpiresOn>>
versionVars == <<APIVersions, versionResponse>>
batchVars == <<offset, batchCalls, handed>>
aloneVars == <<input, output, cyc>>

\* No function is applied on its own and no scrapes overlap.
NoCall == [f |-> "none"]
NoCycles == <<>>

Init ==
    /\ proc = "init"
    /\ now = 1
    /\ accessToken = NoToken
    /\ accessTokenExpiresOn = ZeroExpiry
    /\ APIVersions = EmptyMap
    /\ versionResponse = NoVersionResponse
    /\ sc \in Configs
    /\ pc = "idle"
    /\ idx = 0
    /\ pending = <<>>
    /\ resources = <<>>
    /\ offset = 0
    /\ ch = NoneSent
    /\ reqs = <<>>
    /\ batchCalls = <<>>
    /\ handed = <<>>
    /\ result = "none"
    /\ input = NoCall
    /\ output = NoCall
    /\ cyc = NoCycles

\* Time passes between scrapes and while a call blocks. A step of the cycle
\* stands at the instant its request is sent; the time the call takes passes
\* after the step, so none passes before the first request of a cycle.
Tick ==
    /\ proc = "serving"
    /\ pc \in {"idle", "done"} \/ reqs # <<>>
    /\ now < MaxTime
    /\ now' = now + 1
    /\ UNCHANGED <<aloneVars, proc, tokenVars, versionVars, sc, pc, idx, pending, resources,
                   ch, reqs, batchVars, result>>

\* main: sc.ReloadConfig fails, log.Fatalf.
MainConfigError ==
    /\ proc = "init"
    /\ proc' = "exited"
    /\ UNCHANGED <<aloneVars, now, tokenVars, versionVars, sc, pc, idx, pending, resources,
                   ch, reqs, batchVars, result>>

\* main: the initial ac.getAccessToken, log.Fatalf when it fails.
MainGetAccessToken ==
    /\ proc = "init"
    /\ \E resp \in IdentityResponses(now) :
          LET r == getAccessToken(accessToken, accessTokenExpiresOn, resp)
          IN  /\ accessToken' = r.accessToken
              /\ accessTokenExpiresOn' = r.accessTokenExpiresOn
              /\ proc' = IF r.outcome = "ok" THEN "serving"
                         ELSE IF r.outcome = "panic" THEN "crashed"
                         ELSE "exited"
    /\ UNCHANGED <<aloneVars, now, versionVars, sc, pc, idx, pending, resources, ch, reqs,
                   batchVars, result>>

\* The first loop of Collect that has an entry left, from entry k of `stage`.
StageAt(stage, k) ==
    LET g == IF stage = "groups" THEN k ELSE 1
        t == IF stage = "tags" THEN k ELSE 1
    IN  IF stage = "targets" /\ k <= Len(sc.Targets)
        THEN [pc |-> "targets", idx |-> k]
        ELSE IF stage \in {"targets", "groups"} /\ g <= Len(sc.ResourceGroups)
        THEN [pc |-> "groups", idx |-> g]
        ELSE IF t <= Len(sc.ResourceTags)
        THEN [pc |-> "tags", idx |-> t]
        ELSE [pc |-> "batch", idx |-> 0]

Goto(stage, k) ==
    /\ pc' = StageAt(stage, k).pc
    /\ idx' = StageAt(stage, k).idx

\* Collect returns after sending an invalid metric.
Abandon(why) ==
    /\ ch' = SentInvalid(ch)
    /\ pc' = "done"
    /\ result' = why

\* handler, and Collect up to the return of ac.refreshAccessToken.
CollectRefresh ==
    /\ proc = "serving"
    /\ pc \in {"idle", "done"}
    /\ idx' = 0
    /\ pending' = <<>>
    /\ resources' = <<>>
    /\ offset' = 0
    /\ batchCalls' = <<>>
    /\ handed' = <<>>
    /\ IF refreshNeeded(now, accessTokenExpiresOn)
       THEN \E resp \in IdentityResponses(now) :
               LET r == getAccessToken(accessToken, accessTokenExpiresOn, resp)
               IN  /\ reqs' = <<Req("token", resp)>>
                   /\ accessToken' = r.accessToken
                   /\ accessTokenExpiresOn' = r.accessTokenExpiresOn
                   /\ IF r.outcome = "ok"
                      THEN /\ pc' = "versions"
                           /\ ch' = NoneSent
                           /\ result' = "running"
                           /\ proc' = proc
                      ELSE IF r.outcome = "error"
                      THEN /\ pc' = "done"
                           /\ ch' = SentInvalid(NoneSent)
                           /\ result' = "auth_error"
                           /\ proc' = proc
                      ELSE /\ pc' = "refresh"
                           /\ ch' = NoneSent
                           /\ result' = "running"
                           /\ proc' = "crashed"
       ELSE /\ reqs' = <<>>
            /\ pc' = "versions"
            /\ ch' = NoneSent
            /\ result' = "running"
            /\ UNCHANGED <<proc, tokenVars>>
    /\ UNCHANGED <<aloneVars, now, versionVars, sc>>

\* populateAPIVersions: the provider listing and its decoding, as
\* listAPIVersions does them; an error when the call or the decoding fails.
populateAPIVersions(resp) ==
    IF getAzureMonitorResponse(resp).err
    THEN [err |-> TRUE, apiVersions |-> EmptyMap]
    ELSE [err |-> FALSE, apiVersions |-> extractAPIVersions(resp.val)]

\* Collect: the call of populateAPIVersions, and log.Fatal when it fails.
PopulateAPIVersions ==
    /\ proc = "serving"
    /\ pc = "versions"
    /\ \E resp \in VersionResponses :
          /\ reqs' = Append(reqs, Req("versions", resp))
          /\ IF populateAPIVersions(resp).err
             THEN /\ proc' = "exited"
                  /\ UNCHANGED <<versionVars, pc, idx>>
             ELSE /\ versionResponse' = resp.val
                  /\ APIVersions' = populateAPIVersions(resp).apiVersions
                  /\ Goto("targets", 1)
                  /\ proc' = proc
    /\ UNCHANGED <<aloneVars, now, tokenVars, sc, pending, resources, ch, batchVars, result>>

\* One iteration of the loop over sc.C.Targets.
TargetStep ==
    /\ proc = "serving"
    /\ pc = "targets"
    /\ LET target == sc.Targets[idx]
       IN  \E resp \in LookupResponses(target.Resource) :
              LET r == lookupResourceByID(APIVersions, target.Resource, resp)
              IN  /\ reqs' = IF r.sent THEN Append(reqs, Req("lookup", resp)) ELSE reqs
                  /\ IF r.err
                     THEN /\ ch' = SentInvalid(ch)
                          /\ resources' = resources
                     ELSE /\ ch' = ch
                          /\ resources' =
                                Append(resources,
                                       resourceMetaOf(target.Resource, target, r.resource))
    /\ Goto("targets", idx + 1)
    /\ UNCHANGED <<aloneVars, proc, now, tokenVars, versionVars, sc, pending, batchVars, result>>

\* The resourceMeta of every resource of a filtered listing.
resourceMetasOf(filteredResources, entry) ==
    [n \in 1..Len(filteredResources) |->
        resourceMetaOf(filteredResources[n].ID, entry, filteredResources[n])]

\* listFromResourceGroup and filterResources on the answer of the listing.
filteredListFromResourceGroup(resourceGroup, resp) ==
    IF getAzureMonitorResponse(resp).err
    THEN [err |-> TRUE, panic |-> FALSE, list |-> <<>>]
    ELSE LET e == extendResources(resp.val)
         IN  [err |-> FALSE, panic |-> e.panic,
              list |-> filterResources(e.Value, resourceGroup)]

\* listByTag on the answer of the listing.
filteredListByTag(resourceTag, resp) ==
    IF getAzureMonitorResponse(resp).err
    THEN [err |-> TRUE, panic |-> FALSE, list |-> <<>>]
    ELSE LET value == IF Len(resourceTag.ResourceTypes) > 0
                      THEN filterTypesInResourceList(resp.val, resourceTag.ResourceTypes)
                      ELSE resp.val
             e == extendResources(value)
         IN  [err |-> FALSE, panic |-> e.panic, list |-> e.Value]

\* The loop over sc.C.ResourceGroups with a failed listing skipping its group.
GroupStep_continue ==
    /\ proc = "serving"
    /\ pc = "groups"
    /\ LET resourceGroup == sc.ResourceGroups[idx]
       IN  \E resp \in ListResponses :
              LET r == filteredListFromResourceGroup(resourceGroup, resp)
              IN  /\ reqs' = Append(reqs, Req("list_group", resp))
                  /\ IF r.err
                     THEN /\ ch' = SentInvalid(ch)
                          /\ Goto("groups", idx + 1)
                          /\ UNCHANGED <<proc, resources, result>>
                     ELSE /\ resources' = resources \o resourceMetasOf(r.list, resourceGroup)
                          /\ Goto("groups", idx + 1)
                          /\ UNCHANGED <<proc, ch, result>>
    /\ UNCHANGED <<aloneVars, now, tokenVars, versionVars, sc, pending, batchVars>>

\* One iteration of the loop over sc.C.ResourceGroups.
GroupStep ==
    /\ proc = "serving"
    /\ pc = "groups"
    /\ LET resourceGroup == sc.ResourceGroups[idx]
       IN  \E resp \in ListResponses :
              LET r == filteredListFromResourceGroup(resourceGroup, resp)
              IN  /\ reqs' = Append(reqs, Req("list_group", resp))
                  /\ IF r.err
                     THEN /\ Abandon("listing_error")
                          /\ UNCHANGED <<proc, idx, resources>>
                     ELSE IF r.panic
                     THEN /\ proc' = "crashed"
                          /\ UNCHANGED <<pc, idx, resources, ch, result>>
                     ELSE /\ resources' = resources \o resourceMetasOf(r.list, resourceGroup)
                          /\ Goto("groups", idx + 1)
                          /\ UNCHANGED <<proc, ch, result>>
    /\ UNCHANGED <<aloneVars, now, tokenVars, versionVars, sc, pending, batchVars>>

\* The listing of one entry of sc.C.ResourceTags.
TagStep ==
    /\ proc = "serving"
    /\ pc = "tags"
    /\ LET resourceTag == sc.ResourceTags[idx]
       IN  \E resp \in ListResponses :
              LET r == filteredListByTag(resourceTag, resp)
              IN  /\ reqs' = Append(reqs, Req("list_tag", resp))
                  /\ IF r.err
                     THEN /\ Abandon("listing_error")
                          /\ UNCHANGED <<proc, idx, pending>>
                     ELSE IF r.panic
                     THEN /\ proc' = "crashed"
                          /\ UNCHANGED <<pc, idx, pending, ch, result>>
                     ELSE /\ pending' = r.list
                          /\ IF r.list = <<>>
                             THEN Goto("tags", idx + 1)
                             ELSE pc' = "taglookup" /\ idx' = idx
                          /\ UNCHANGED <<proc, ch, result>>
    /\ UNCHANGED <<aloneVars, now, tokenVars, versionVars, sc, resources, batchVars>>

\* One iteration of the loop over the filteredResources of a tag.
TagLookupStep ==
    /\ proc = "serving"
    /\ pc = "taglookup"
    /\ LET resourceTag == sc.ResourceTags[idx]
           f == Head(pending)
       IN  \E resp \in LookupResponses(f.ID) :
              LET r == lookupResourceByID(APIVersions, f.ID, resp)
              IN  /\ reqs' = IF r.sent THEN Append(reqs, Req("lookup", resp)) ELSE reqs
                  /\ IF r.err
                     THEN /\ ch' = SentInvalid(ch)
                          /\ resources' = resources
                     ELSE /\ ch' = ch
                          /\ resources' =
                                Append(resources, resourceMetaOf(f.ID, resourceTag, r.resource))
    /\ pending' = Tail(pending)
    /\ IF Tail(pending) = <<>>
       THEN Goto("tags", idx + 1)
       ELSE UNCHANGED <<pc, idx>>
    /\ UNCHANGED <<aloneVars, proc, now, tokenVars, versionVars, sc, batchVars, result>>

\* One iteration of the loop of batchCollectResources, or its end.
BatchStep ==
    /\ proc = "serving"
    /\ pc = "batch"
    /\ IF offset >= Len(resources)
       THEN /\ pc' = "done"
            /\ result' = "ok"
            /\ UNCHANGED <<proc, ch, reqs, batchVars>>
       ELSE LET j == Min(offset + batchSize, Len(resources))
                urls == [n \in 1..(j - offset) |-> resources[offset + n].ResourceURL]
            IN  \E resp \in BatchResponses(Len(urls)) :
                   LET batchData == getBatchMetricValues(urls, resp)
                       e == extractLoop(resources, offset, Len(batchCalls) + 1,
                                        batchData.Responses, 1,
                                        [panic |-> FALSE, ch |-> ch, handed |-> handed])
                   IN  /\ reqs' = Append(reqs, Req("batch", resp))
                       /\ batchCalls' = Append(batchCalls,
                                               [i |-> offset, j |-> j,
                                                ok |-> ResponseOK(resp),
                                                responses |-> Len(batchData.Responses)])
                       /\ IF batchData.err
                          THEN /\ Abandon("batch_error")
                               /\ UNCHANGED <<proc, offset, handed>>
                          ELSE /\ ch' = e.ch
                               /\ handed' = e.handed
                               /\ IF e.panic
                                  THEN /\ proc' = "crashed"
                                       /\ UNCHANGED <<pc, offset, result>>
                                  ELSE /\ offset' = offset + batchSize
                                       /\ pc' = IF offset + batchSize >= Len(resources)
                                                THEN "done" ELSE "batch"
                                       /\ result' = IF offset + batchSize >= Len(resources)
                                                    THEN "ok" ELSE result
                                       /\ proc' = proc
    /\ UNCHANGED <<aloneVars, now, tokenVars, versionVars, sc, idx, pending, resources>>

Next ==
    \/ Tick
    \/ MainConfigError
    \/ MainGetAccessToken
    \/ CollectRefresh
    \/ PopulateAPIVersions
    \/ TargetStep
    \/ GroupStep
    \/ TagStep
    \/ TagLookupStep
    \/ BatchStep

Spec == Init /\ [][Next]_vars

(***************************************************************************)
(* batchCollectResources on its own: any list of resolved queries.         *)
(***************************************************************************)
Digit(n) == <<"0", "1", "2", "3", "4", "5", "6", "7", "8", "9">>[n + 1]

PathNo(n) == <<"/", "r", Digit((n \div 10) % 10), Digit(n % 10)>>

\* The n-th resolved query of a list: a resource of a group listing.
QueryNo(n) ==
    resourceMetaOf(PathNo(n), Group1,
                   AzureResource(PathNo(n), "web-1", TypeVM, SubscriptionID))

InitBatch ==
    /\ proc = "serving"
    /\ now = 1
    /\ accessToken = Token(1, 1 + TokenLifetime)
    /\ accessTokenExpiresOn = 1 + TokenLifetime
    /\ APIVersions = EmptyMap
    /\ versionResponse = NoVersionResponse
    /\ sc = NoConfig
    /\ pc = "batch"
    /\ idx = 0
    /\ pending = <<>>
    /\ \E len \in 0..MaxResources : resources = [n \in 1..len |-> QueryNo(n)]
    /\ offset = 0
    /\ ch = NoneSent
    /\ reqs = <<>>
    /\ batchCalls = <<>>
    /\ handed = <<>>
    /\ result = "running"
    /\ input = NoCall
    /\ output = NoCall
    /\ cyc = NoCycles

NextBatch == BatchStep

SpecBatch == InitBatch /\ [][NextBatch]_vars

(***************************************************************************)
(* extractAPIVersions on its own: any apiVersions list of a resource type. *)
(***************************************************************************)
SeqsUpTo(S, n) == UNION {[1..k -> S] : k \in 0..n}

InitVersions ==
    /\ proc = "serving"
    /\ now = 1
    /\ accessToken = Token(1, 1 + TokenLifetime)
    /\ accessTokenExpiresOn = 1 + TokenLifetime
    /\ APIVersions = EmptyMap
    /\ \E apiList \in SeqsUpTo(VersionUniverse, MaxVersions) :
          versionResponse =
              [Value |-> <<Provider("Microsoft.Compute",
                                    <<ProviderType("virtualMachines", apiList),
                                      ProviderType("disks", <<V2018>>)>>)>>]
    /\ sc = NoConfig
    /\ pc = "decode"
    /\ idx = 0
    /\ pending = <<>>
    /\ resources = <<>>
    /\ offset = 0
    /\ ch = NoneSent
    /\ reqs = <<>>
    /\ batchCalls = <<>>
    /\ handed = <<>>
    /\ result = "running"
    /\ input = NoCall
    /\ output = NoCall
    /\ cyc = NoCycles

\* listAPIVersions from the decoded body on: ac.APIVersions is replaced.
DecodeVersions ==
    /\ pc = "decode"
    /\ APIVersions' = extractAPIVersions(versionResponse)
    /\ pc' = "decoded"
    /\ UNCHANGED <<aloneVars, proc, now, tokenVars, versionResponse, sc, idx, pending, resources,
                   ch, reqs, batchVars, result>>

NextVersions == DecodeVersions

SpecVersions == InitVersions /\ [][NextVersions]_vars

(***************************************************************************)
(* filterResources on its own: any resource list, any include and exclude  *)
(* pattern lists.                                                          *)
(***************************************************************************)
MaxListed == 3         \* longest resource list handed to filterResources
MaxPatterns == 2       \* longest include or exclude pattern list

\* The names the pattern "-1$" matches.
ReOne == {"web-1", "db-1"}

ResourceNames == {"web-1", "web-test", "db-1"}

Patterns == {ReWeb, ReTest, ReOne}

\* The n-th resource of a listing, named name.
ListedAs(names) ==
    [n \in 1..Len(names) |-> AzureResource(PathNo(n), names[n], TypeVM, SubscriptionID)]

\* Every variable of the collection cycle at rest.
AtRest ==
    /\ proc = "serving"
    /\ now = 1
    /\ accessToken = Token(1, 1 + TokenLifetime)
    /\ accessTokenExpiresOn = 1 + TokenLifetime
    /\ APIVersions = EmptyMap
    /\ versionResponse = NoVersionResponse
    /\ sc = NoConfig
    /\ idx = 0
    /\ pending = <<>>
    /\ resources = <<>>
    /\ offset = 0
    /\ ch = NoneSent
    /\ reqs = <<>>
    /\ batchCalls = <<>>
    /\ handed = <<>>
    /\ result = "none"
    /\ cyc = NoCycles

cycleVars == <<proc, now, tokenVars, versionVars, sc, idx, pending, resources, ch,
               reqs, batchVars, result>>

InitFilter ==
    /\ AtRest
    /\ pc = "call"
    /\ \E names \in SeqsUpTo(ResourceNames, MaxListed) :
       \E include \in SeqsUpTo(Patterns, MaxPatterns) :
       \E exclude \in SeqsUpTo(Patterns, MaxPatterns) :
          input = [f |-> "filterResources", resources |-> ListedAs(names),
                   resourceGroup |-> ResourceGroup("rg", include, exclude)]
    /\ output = NoCall

\* ac.filterResources(resources, resourceGroup)
ApplyFilterResources ==
    /\ pc = "call"
    /\ input.f = "filterResources"
    /\ output' = [f |-> "filterResources",
                  ret |-> filterResources(input.resources, input.resourceGroup)]
    /\ pc' = "returned"
    /\ UNCHANGED <<cycleVars, input, cyc>>

NextFilter == ApplyFilterResources

SpecFilter == InitFilter /\ [][NextFilter]_vars

(***************************************************************************)
(* extractMetrics on its own: any payload of up to MaxMetrics metrics.     *)
(***************************************************************************)
MaxMetrics == 2        \* most named metrics in the payload of a sub-response

Point1 == Point(1, 6, 8, 12)
Point2 == Point(2, 4, 9, 10)
Point3 == Point(3, 5, 7, 11)

\* The metrics a payload is made of: without series, with a series without
\* data points, with one and with three points, with two series, and with
\* data in the second series only.
MetricUniverse ==
    { MetricValue("m0", "Count", <<>>),
      MetricValue("m1", "Count", <<[Data |-> <<>>]>>),
      MetricValue("cpu", "Percent", <<[Data |-> <<Point2>>]>>),
      MetricValue("mem", "Bytes", <<[Data |-> <<Point1, Point2, Point3>>]>>),
      MetricValue("io", "Count", <<[Data |-> <<Point3, Point1>>], [Data |-> <<Point2>>]>>),
      MetricValue("net", "Count", <<[Data |-> <<>>], [Data |-> <<Point1>>]>>) }

\* The aggregations of a configuration entry.
AggregationLists ==
    { <<"Total", "Count">>, <<"Maximum", "Average">>,
      <<"Minimum", "Total", "Total">>, <<>> }

InitExtract ==
    /\ AtRest
    /\ pc = "call"
    /\ \E aggregations \in AggregationLists :
       \E status \in {200, 404} :
       \E value \in SeqsUpTo(MetricUniverse, MaxMetrics) :
          input = [f |-> "extractMetrics",
                   rm |-> resourceMetaOf(PathA,
                                         [Metrics |-> Metrics1,
                                          Aggregations |-> aggregations],
                                         AzureResource(PathA, "web-1", TypeVM,
                                                       SubscriptionID)),
                   httpStatusCode |-> status,
                   metricValueData |-> [Value |-> value]]
    /\ output = NoCall

\* c.extractMetrics(ch, rm, httpStatusCode, metricValueData)
ApplyExtractMetrics ==
    /\ pc = "call"
    /\ input.f = "extractMetrics"
    /\ LET r == extractMetrics(input.rm, input.httpStatusCode, input.metricValueData)
       IN  output' = [f |-> "extractMetrics", panic |-> r.panic, out |-> r.out]
    /\ pc' = "returned"
    /\ UNCHANGED <<cycleVars, input, cyc>>

NextExtract == ApplyExtractMetrics

SpecExtract == InitExtract /\ [][NextExtract]_vars

(***************************************************************************)
(* Two overlapping scrapes (main.go:244-250, azure.go:178-212, 345-394,    *)
(* 415-436, 483-494).  net/http runs handler in a goroutine per request;   *)
(* each goroutine runs Collect on the one AzureClient ac.  A cycle is      *)
(* followed up to its first resource lookup.  A store to a field of ac is  *)
(* a position of its own: a load of the field by the other goroutine       *)
(* while the store is in progress is a data race, and returns the old      *)
(* value, the new one or, for the two-word string, a torn one.             *)
(***************************************************************************)
Cycles == {1, 2}

Other(c) == CHOOSE o \in Cycles : o # c

\* The locals of a goroutine: the expiry refreshAccessToken read, the result
\* of getAccessToken about to be stored, the token put in the last request
\* header, the map about to be stored, and whether a load of it raced.
IdleCycle ==
    [pc |-> "idle", seen |-> ZeroExpiry,
     got |-> [outcome |-> "none", accessToken |-> NoToken,
              accessTokenExpiresOn |-> ZeroExpiry],
     tok |-> NoToken, versions |-> EmptyMap, raced |-> FALSE]

\* A string whose pointer and length come from two different stores.
TornToken == Token(0 - 1, 0 - 1)

\* The values a load of ac.accessTokenExpiresOn by c can return.
LoadExpiry(c) ==
    IF cyc[Other(c)].pc = "wexpiry"
    THEN {accessTokenExpiresOn, cyc[Other(c)].got.accessTokenExpiresOn}
    ELSE {accessTokenExpiresOn}

\* The values a load of ac.accessToken by c can return.
LoadToken(c) ==
    IF cyc[Other(c)].pc = "wtoken"
    THEN {accessToken, cyc[Other(c)].got.accessToken, TornToken}
    ELSE {accessToken}

\* The values a load of ac.APIVersions by c can return.
LoadVersions(c) ==
    IF cyc[Other(c)].pc = "wversions"
    THEN {APIVersions, cyc[Other(c)].versions}
    ELSE {APIVersions}

\* Whether a load by c of the field stored at position w races.
Races(c, w) == cyc[Other(c)].pc = w

raceVars == <<sc, pc, idx, pending, resources, ch, batchVars, result, input, output,
              versionResponse>>

InitRace ==
    /\ proc = "serving"
    /\ now \in {1, 1 + TokenLifetime - refreshSkew, 2 + TokenLifetime - refreshSkew}
    /\ accessToken = Token(1, 1 + TokenLifetime)
    /\ accessTokenExpiresOn = 1 + TokenLifetime
    /\ APIVersions = EmptyMap
    /\ versionResponse = NoVersionResponse
    /\ sc = NoConfig
    /\ pc = "idle"
    /\ idx = 0
    /\ pending = <<>>
    /\ resources = <<>>
    /\ offset = 0
    /\ ch = NoneSent
    /\ reqs = <<>>
    /\ batchCalls = <<>>
    /\ handed = <<>>
    /\ result = "none"
    /\ input = NoCall
    /\ output = NoCall
    /\ cyc = [c \in Cycles |-> IdleCycle]

\* handler with the cycles serialised by a lock held from Collect's start to
\* its end.
handler_locked(c) ==
    /\ proc = "serving"
    /\ cyc[c].pc = "idle"
    /\ cyc[Other(c)].pc \in {"idle", "done"}
    /\ cyc' = [cyc EXCEPT ![c].pc = "check"]
    /\ UNCHANGED <<raceVars, proc, now, tokenVars, APIVersions, reqs>>

\* handler: a scrape request arrives and its goroutine enters Collect.
handler(c) ==
    /\ proc = "serving"
    /\ cyc[c].pc = "idle"
    /\ cyc' = [cyc EXCEPT ![c].pc = "check"]
    /\ UNCHANGED <<raceVars, proc, now, tokenVars, APIVersions, reqs>>

\* refreshAccessToken: the load of the expiry, the test, and PostForm sent.
RefreshCheck(c) ==
    /\ proc = "serving"
    /\ cyc[c].pc = "check"
    /\ \E e \in LoadExpiry(c) :
          cyc' = [cyc EXCEPT ![c].seen = e,
                             ![c].raced = @ \/ Races(c, "wexpiry"),
                             ![c].pc = IF refreshNeeded(now, e) THEN "post" ELSE "list"]
    /\ UNCHANGED <<raceVars, proc, now, tokenVars, APIVersions, reqs>>

\* getAccessToken from the answer of the identity endpoint to the decoding
\* of its body.
TokenFetched(c) ==
    /\ proc = "serving"
    /\ cyc[c].pc = "post"
    /\ \E resp \in IdentityResponses(now) :
          LET r == getAccessToken(accessToken, accessTokenExpiresOn, resp)
              decoded == ~resp.err /\ resp.status = 200 /\ ~resp.readErr /\ resp.json
          IN  /\ reqs' = Append(reqs, Req("token", resp))
              /\ IF decoded /\ resp.data.access_token.t = "string"
                 THEN /\ cyc' = [cyc EXCEPT ![c].got = r, ![c].pc = "wtoken"]
                      /\ proc' = proc
                 ELSE IF r.outcome = "panic"
                 THEN /\ proc' = "crashed"
                      /\ cyc' = cyc
                 ELSE /\ cyc' = [cyc EXCEPT ![c].pc = "done"]
                      /\ proc' = proc
    /\ UNCHANGED <<raceVars, now, tokenVars, APIVersions>>

\* getAccessToken: the store to ac.accessToken, and ParseInt.
WriteToken(c) ==
    /\ proc = "serving"
    /\ cyc[c].pc = "wtoken"
    /\ accessToken' = cyc[c].got.accessToken
    /\ IF cyc[c].got.outcome = "panic"
       THEN /\ proc' = "crashed"
            /\ cyc' = cyc
       ELSE /\ proc' = proc
            /\ cyc' = [cyc EXCEPT ![c].pc = IF cyc[c].got.outcome = "ok"
                                            THEN "wexpiry" ELSE "done"]
    /\ UNCHANGED <<raceVars, now, accessTokenExpiresOn, APIVersions, reqs>>

\* getAccessToken: the store to ac.accessTokenExpiresOn.
WriteExpiry(c) ==
    /\ proc = "serving"
    /\ cyc[c].pc = "wexpiry"
    /\ accessTokenExpiresOn' = cyc[c].got.accessTokenExpiresOn
    /\ cyc' = [cyc EXCEPT ![c].pc = "list"]
    /\ UNCHANGED <<raceVars, proc, now, accessToken, APIVersions, reqs>>

\* listAPIVersions: the request of the provider listing is built, with a
\* load of ac.accessToken for its header, and sent.
ListSend(c) ==
    /\ proc = "serving"
    /\ cyc[c].pc = "list"
    /\ \E t \in LoadToken(c) :
          cyc' = [cyc EXCEPT ![c].tok = t,
                             ![c].raced = @ \/ Races(c, "wtoken"),
                             ![c].pc = "listing"]
    /\ UNCHANGED <<raceVars, proc, now, tokenVars, APIVersions, reqs>>

\* listAPIVersions from the answer to the decoding of its body; Collect's
\* log.Fatal when it failed.
ListReturn(c) ==
    /\ proc = "serving"
    /\ cyc[c].pc = "listing"
    /\ \E resp \in VersionResponses :
          /\ reqs' = Append(reqs, Req("versions", resp))
          /\ IF populateAPIVersions(resp).err
             THEN /\ proc' = "exited"
                  /\ cyc' = cyc
             ELSE /\ proc' = proc
                  /\ cyc' = [cyc EXCEPT ![c].versions = populateAPIVersions(resp).apiVersions,
                                        ![c].pc = "wversions"]
    /\ UNCHANGED <<raceVars, now, tokenVars, APIVersions>>

\* listAPIVersions: the store to ac.APIVersions.
WriteVersions(c) ==
    /\ proc = "serving"
    /\ cyc[c].pc = "wversions"
    /\ APIVersions' = cyc[c].versions
    /\ cyc' = [cyc EXCEPT ![c].pc = "lookup"]
    /\ UNCHANGED <<raceVars, proc, now, tokenVars, reqs>>

\* lookupResourceByID of one resource: the load of ac.APIVersions by findBy,
\* the load of ac.accessToken for the header, and the request.
Lookup(c) ==
    /\ proc = "serving"
    /\ cyc[c].pc = "lookup"
    /\ \E v \in LoadVersions(c) : \E t \in LoadToken(c) :
       \E resp \in LookupResponses(PathA) :
          LET r == lookupResourceByID(v, PathA, resp)
          IN  /\ reqs' = IF r.sent THEN Append(reqs, Req("lookup", resp)) ELSE reqs
              /\ cyc' = [cyc EXCEPT ![c].tok = IF r.sent THEN t ELSE @,
                                    ![c].raced = @ \/ Races(c, "wversions")
                                                   \/ (r.sent /\ Races(c, "wtoken")),
                                    ![c].pc = "done"]
    /\ UNCHANGED <<raceVars, proc, now, tokenVars, APIVersions>>

\* The next step of goroutine c.
CycleStep(c) ==
    \/ handler(c)
    \/ RefreshCheck(c)
    \/ TokenFetched(c)
    \/ WriteToken(c)
    \/ WriteExpiry(c)
    \/ ListSend(c)
    \/ ListReturn(c)
    \/ WriteVersions(c)
    \/ Lookup(c)

NextRace == \E c \in Cycles : CycleStep(c)

SpecRace == InitRace /\ [][NextRace]_vars

(***************************************************************************)
(* Properties.                                                             *)
(***************************************************************************)
Last(q) == q[Len(q)]

CeilDiv(n, b) == (n + b - 1) \div b

HandedOf(b) == {n \in 1..Len(handed) : handed[n].batch = b}

\* C1: with N resolved queries, batchCollectResources issues ceil(N/20) batch
\* calls when none fails, the calls carry consecutive slices of at most 20
\* queries in list order, and every sub-response handed to extractMetrics is
\* paired with the query submitted at the same position of the same batch,
\* whatever number of sub-responses the endpoint returns.
C1_BatchesAndPairing ==
    /\ \A b \in 1..Len(batchCalls) :
          /\ batchCalls[b].i = (b - 1) * batchSize
          /\ batchCalls[b].j = Min(b * batchSize, Len(resources))
    /\ (pc = "done" /\ result = "ok")
          => Len(batchCalls) = CeilDiv(Len(resources), batchSize)
    /\ \A n \in 1..Len(handed) :
          LET e == handed[n]
          IN  /\ e.q = batchCalls[e.batch].i + e.pos
              /\ e.q <= batchCalls[e.batch].j

\* C2: refreshAccessToken calls the identity endpoint exactly when now is
\* after expiry minus 10 minutes; at or before that instant no call is made
\* and the stored token and expiry are unchanged.
C2_RefreshExactlyWhenDue ==
    [][CollectRefresh =>
          /\ (Len(reqs') = 1) <=> (now > accessTokenExpiresOn - 10)
          /\ (now <= accessTokenExpiresOn - 10)
                => /\ reqs' = <<>>
                   /\ accessToken' = accessToken
                   /\ accessTokenExpiresOn' = accessTokenExpiresOn]_vars

\* C2 witness: a cycle that began exactly 10 minutes before the expiry and
\* went on to the provider listing without a token request.
C2_Witness ==
    /\ pc = "versions"
    /\ reqs = <<>>
    /\ now = accessTokenExpiresOn - 10
    /\ accessToken # NoToken

\* C3: at every authenticated request of a cycle the bearer token sent
\* expires later than the current time.
C3_TokenNeverUsedPastExpiry ==
    [][(Len(reqs') = Len(reqs) + 1 /\ Last(reqs').kind # "token")
          => accessToken.exp > now]_vars

\* C4: no failure inside a collection cycle terminates the process; the
\* process ends only at startup, before any cycle has begun.
C4_CycleFailureNeverTerminates ==
    proc \in {"exited", "crashed"} => pc = "idle"

\* C5: when a batch call fails in transport (connection error, non-success
\* status, body-read failure) or in decoding, the cycle sends one invalid
\* metric, hands no sub-response of that batch to extractMetrics and issues
\* no further batch call.
C5_FailedBatchAbortsCycle ==
    \A n \in 1..Len(reqs) :
        (reqs[n].kind = "batch" /\ ~reqs[n].ok)
            => /\ n = Len(reqs)
               /\ pc = "done"
               /\ result = "batch_error"
               /\ ch.invalid >= 1
               /\ HandedOf(Len(batchCalls)) = {}

\* C6: a sub-response whose status is not 200 sends nothing on ch; the
\* sub-response after it in the batch is still handed to extractMetrics and
\* sends what its payload holds, and the next batch is still issued.
C6_Non200Isolated ==
    /\ \A n \in 1..Len(handed) :
          LET e == handed[n]
              c == batchCalls[e.batch]
          IN  /\ e.status # 200 => e.n = 0
              /\ (e.status # 200 /\ e.pos < c.responses /\ e.q < Len(resources))
                    => /\ n < Len(handed)
                       /\ handed[n + 1].batch = e.batch
                       /\ handed[n + 1].pos = e.pos + 1
                       /\ (handed[n + 1].status = 200 /\ handed[n + 1].values > 0)
                             => handed[n + 1].n =
                                   handed[n + 1].values
                                       * Len(resources[handed[n + 1].q].Aggregations) + 1
    /\ \A b \in 1..Len(batchCalls) :
          (/\ batchCalls[b].ok
           /\ batchCalls[b].responses <= Len(resources) - batchCalls[b].i
           /\ batchCalls[b].j < Len(resources))
              => (Len(batchCalls) > b \/ pc = "batch")

\* C6 witness: in the first batch a sub-response with status 500 sent nothing,
\* the ones before and after it sent their samples, and a second batch was
\* issued.
C6_Witness ==
    /\ Len(batchCalls) >= 2
    /\ \E n \in 2..(Len(handed) - 3) :
          /\ handed[n].batch = 1 /\ handed[n].status = 500 /\ handed[n].n = 0
          /\ handed[n - 1].batch = 1 /\ handed[n - 1].status = 200 /\ handed[n - 1].n = 2
          /\ handed[n + 3].batch = 1 /\ handed[n + 3].status = 200 /\ handed[n + 3].n = 2

\* C7: when the listing call of a resource group or of a tag fails, the cycle
\* sends an invalid metric and ends at once: no request follows it (no later
\* listing, no batch call) and no sample is sent for any resource.
C7_ListingFailureEndsCycle ==
    \A n \in 1..Len(reqs) :
        (reqs[n].kind \in {"list_group", "list_tag"} /\ ~reqs[n].ok)
            => /\ n = Len(reqs)
               /\ pc = "done"
               /\ proc = "serving"
               /\ ch.invalid >= 1
               /\ ch.metric = 0
               /\ ch.info = 0
               /\ batchCalls = <<>>
               /\ handed = <<>>

\* C7 witness: the listing of the second resource group failed after a target
\* and the first group had been resolved, with a tag entry still to expand.
C7_Witness ==
    /\ pc = "done"
    /\ result = "listing_error"
    /\ Last(reqs).kind = "list_group"
    /\ idx = 2
    /\ Len(resources) >= 2
    /\ Len(sc.ResourceTags) > 0
    /\ ch.metric = 0

\* C8: every descriptor attached to a resolved query has an identifier
\* without the subscription prefix and the active subscription as its
\* subscription field.
C8_DescriptorsStripped ==
    \A n \in 1..Len(resources) :
        /\ ~HasSubscriptionPrefix(resources[n].Resource.ID)
        /\ resources[n].Resource.Subscription = SubscriptionID

\* The candidates of the resource type whose list varies, and the ones among
\* them whose leading date parses.
Candidates == versionResponse.Value[1].ResourceTypes[1].APIVersions

DateOf(api) == timeParse(apiVersionDateFindString(api)).date

Parsed == {n \in 1..Len(Candidates) :
              ~timeParse(apiVersionDateFindString(Candidates[n])).err}

Newest == {n \in Parsed : \A m \in Parsed : ~Before(DateOf(Candidates[n]),
                                                       DateOf(Candidates[m]))}

Selected == APIVersions[Join2("Microsoft.Compute", "virtualMachines", "/")]

MinOf(S) == CHOOSE n \in S : \A m \in S : n <= m
MaxOf(S) == CHOOSE n \in S : \A m \in S : n >= m

\* C9: latestVersionFrom returns a candidate whose leading date is the maximum
\* over the candidates that parse, never a candidate that does not parse, and
\* extractAPIVersions stores it under "<namespace>/<type>".
C9_LatestIsNewestParsed ==
    (pc = "decoded" /\ Len(Candidates) > 0)
        => /\ Join2("Microsoft.Compute", "virtualMachines", "/") \in DOMAIN APIVersions
           /\ APIVersions[Join2("Microsoft.Compute", "disks", "/")] = V2018
           /\ Parsed # {} => \E n \in Newest : Selected = Candidates[n]
           /\ \A n \in 1..Len(Candidates) :
                 Selected = Candidates[n] => n \in Parsed

\* C10 as stated: among several candidates sharing the maximum date the last
\* one encountered is selected.
C10_LastOfNewestWins ==
    (pc = "decoded" /\ Cardinality(Newest) >= 2)
        => Selected = Candidates[MaxOf(Newest)]

\* C10, amended: among several candidates sharing the maximum date the first
\* one encountered is selected; when that date is 0001-01-01, the zero time,
\* none is selected and the result is the empty string.
C10_FirstOfNewestWins ==
    (pc = "decoded" /\ Cardinality(Newest) >= 2)
        => Selected = IF Before(zeroTime, DateOf(Candidates[MinOf(Newest)]))
                      THEN Candidates[MinOf(Newest)]
                      ELSE EmptyVersion

\* C10 witness: two different strings share the maximum date and the first
\* was selected.
C10_Witness ==
    /\ pc = "decoded"
    /\ Cardinality(Newest) >= 2
    /\ Candidates[MinOf(Newest)] # Candidates[MaxOf(Newest)]
    /\ Selected = Candidates[MinOf(Newest)]

(***************************************************************************)
(* C11: filterResources returns the resources of its input whose name      *)
(* matches some include pattern (or any name, when there is no include     *)
(* pattern) and matches no exclude pattern, in the order of the input,     *)
(* and nothing else.                                                       *)
(***************************************************************************)
\* The n-th smallest member of a set of numbers.
NthOf(K, n) == CHOOSE k \in K : Cardinality({m \in K : m < k}) = n - 1

Keeps(resourceGroup, name) ==
    /\ \/ resourceGroup.ResourceNameIncludeRe = <<>>
       \/ \E rx \in Range(resourceGroup.ResourceNameIncludeRe) : name \in rx
    /\ \A rx \in Range(resourceGroup.ResourceNameExcludeRe) : name \notin rx

C11_KeepsExactlyTheMatching ==
    output.f = "filterResources" =>
        LET rs == input.resources
            K == {n \in 1..Len(rs) : Keeps(input.resourceGroup, rs[n].Name)}
        IN  /\ Len(output.ret) = Cardinality(K)
            /\ \A n \in 1..Len(output.ret) : output.ret[n] = rs[NthOf(K, n)]

\* The group of the example: include "^web", exclude "-test$", over web-1,
\* web-test and db-1, keeps web-1 only.
C11_Witness ==
    /\ output.f = "filterResources"
    /\ input.resources = ListedAs(<<"web-1", "web-test", "db-1">>)
    /\ input.resourceGroup.ResourceNameIncludeRe = <<ReWeb>>
    /\ input.resourceGroup.ResourceNameExcludeRe = <<ReTest>>
    /\ output.ret = <<AzureResource(PathNo(1), "web-1", TypeVM, SubscriptionID)>>

(***************************************************************************)
(* C12: for a sub-response of status 200, every sample sent for a named    *)
(* metric has the value of the matching field of the last data point of    *)
(* the first series of that metric, and a translation that completes sends *)
(* one sample for each requested kind among Total, Average, Minimum and    *)
(* Maximum, for each metric of the payload.                                *)
(***************************************************************************)
SuffixOf(a) ==
    IF a = "Total" THEN "_total"
    ELSE IF a = "Average" THEN "_average"
    ELSE IF a = "Minimum" THEN "_min"
    ELSE "_max"

\* The field of point p that samples of suffix sfx report.
FieldOf(p, sfx) ==
    IF sfx = "_total" THEN p.Total
    ELSE IF sfx = "_average" THEN p.Average
    ELSE IF sfx = "_min" THEN p.Minimum
    ELSE p.Maximum

MetricSamples == {n \in 1..Len(output.out) : output.out[n].kind = "metric"}

C12_SamplesFromLastPoint ==
    (output.f = "extractMetrics" /\ input.httpStatusCode = 200) =>
        LET values == input.metricValueData.Value
            kinds == Range(input.rm.Aggregations) \cap SupportedAggregations
        IN  /\ \A n \in MetricSamples :
                  \E k \in 1..Len(values) :
                     /\ output.out[n].name = <<values[k].Name, values[k].Unit>>
                     /\ values[k].Timeseries # <<>>
                     /\ values[k].Timeseries[1].Data # <<>>
                     /\ output.out[n].value =
                            FieldOf(Last(values[k].Timeseries[1].Data),
                                    output.out[n].suffix)
                     /\ output.out[n].suffix \in {SuffixOf(a) : a \in kinds}
            /\ (~output.panic /\ output.out # <<>>) =>
                  \A k \in 1..Len(values) : \A a \in kinds :
                     Cardinality({n \in MetricSamples :
                                    /\ output.out[n].name =
                                          <<values[k].Name, values[k].Unit>>
                                    /\ output.out[n].suffix = SuffixOf(a)})
                        = Cardinality({m \in 1..Len(values) : values[m] = values[k]})

\* Data points of totals 1, 2, 3 with Total requested: one sample, of value 3.
C12_Witness ==
    /\ output.f = "extractMetrics"
    /\ input.httpStatusCode = 200
    /\ input.metricValueData.Value =
          <<MetricValue("mem", "Bytes", <<[Data |-> <<Point1, Point2, Point3>>]>>)>>
    /\ input.rm.Aggregations = <<"Total">>
    /\ \E n \in MetricSamples : output.out[n].value = 3
    /\ Cardinality(MetricSamples) = 1

(***************************************************************************)
(* C15: extractMetrics never indexes a list out of its range: for every    *)
(* payload of status 200, a later metric without series or without data    *)
(* points included, the translation completes.                             *)
(***************************************************************************)
C15_NoOutOfRangeAccess ==
    output.f = "extractMetrics" => ~output.panic

(***************************************************************************)
(* C13: getAccessToken returns an error and does not crash when the        *)
(* identity endpoint answers with a status other than 200, with a body     *)
(* that is not JSON, or with access_token or expires_on absent or not a    *)
(* string: no call of it, at startup or in a refresh, ends the process by  *)
(* a panic.                                                                *)
(***************************************************************************)
C13_AuthFailureIsAnError ==
    [][(MainGetAccessToken \/ CollectRefresh) => proc' # "crashed"]_vars

(***************************************************************************)
(* C14: nothing serialises collection cycles.  A goroutine that has a step *)
(* left can always take it, wherever the other goroutine stands; and with  *)
(* two overlapping scrapes both fetch a token for the same stale expiry    *)
(* and one loads a field of the client while the other stores it.          *)
(***************************************************************************)
C14_NothingSerialisesCycles ==
    proc = "serving" =>
        \A c \in DOMAIN cyc : cyc[c].pc # "done" => ENABLED CycleStep(c)

TokenFetches == {n \in 1..Len(reqs) : reqs[n].kind = "token"}

\* Both goroutines read the same stale expiry and both fetched a token, and
\* one of them has loaded a field the other was storing.
C14_Witness ==
    /\ DOMAIN cyc = Cycles
    /\ Cardinality(TokenFetches) = 2
    /\ cyc[1].seen = cyc[2].seen
    /\ refreshNeeded(now, cyc[1].seen)
    /\ \E c \in Cycles : cyc[c].raced

====
